---------------------------- MODULE Spec2Model ----------------------------
(***************************************************************************)
(* A model of the oncology clinical-decision-support pipeline:             *)
(*   LiteratureAgent.query      (src/agents/literature_agent.py)           *)
(*   AnalysisAgent              (src/agents/analysis_agent.py)             *)
(*   ClinicalReasoner           (src/agents/clinical_reasoner.py)          *)
(*   DoctorAgent                (src/agents/doctor_agent.py)               *)
(*   OncologySupervisor         (src/agents/supervisor.py)                 *)
(*   OncologyMemoryService      (src/memory/memory_service.py)             *)
(*   main / dashboard handler   (src/main.py, src/app.py)                  *)
(*                                                                         *)
(* Numbers.  Python floats are modelled on fixed decimal grids:            *)
(*   p-values     in units of 1/100000  (0.05 is 5000, 1.0 is 100000)      *)
(*   confidences  in units of 1/10000   (0.70 is 7000, 0.94 is 9400)       *)
(*   medians      in whole months (the embedded durations are integers)    *)
(* A Python dict is a record, a key it does not carry is a field outside   *)
(* its DOMAIN.  None, in a field that otherwise holds a number >= 0, is -1 *)
(* (TLC compares numbers only with numbers).                               *)
(***************************************************************************)
EXTENDS Integers, Sequences, FiniteSets, TLC

VARIABLES
    \* a unit call of one function
    fn,               \* the function called ("none" in a run of the program)
    arg,              \* the input of the call
    ret,              \* its result, NoRet before the call
    \* the research_memory table and the shared SQLAlchemy session
    rows,             \* the committed rows, in insertion order
    pending,          \* objects added to the session and not yet committed
    clock,            \* the number of save calls made so far (datetime.utcnow)
    last,             \* history: the last save call and the rows before it
    \* one run of the program (CLI or dashboard)
    pc,               \* the position of the run
    entry,            \* "cli" or "dashboard"
    api_key,          \* what GOOGLE_API_KEY holds
    run_query,        \* the query string of the run
    lit_result,       \* locals of process_query, Unset before their stage
    analysis_result,
    recommendation,
    doctor_review,
    risk_profile,
    error,            \* the error the run has shown, "none" if none
    log               \* history: the stages and the writes of the run, in
                      \* order, "raised" after a write that raised

unitVars == <<fn, arg, ret>>

storeVars == <<rows, pending, clock, last>>

runVars == <<pc, entry, api_key, run_query, lit_result, analysis_result,
             recommendation, doctor_review, risk_profile, error, log>>

vars == <<unitVars, storeVars, runVars>>

Unset == [set |-> FALSE]

None == -1

NoRet == [called |-> FALSE]

(***************************************************************************)
(* dict.get(key, default), dict.get(key) and Python's  x or 0.             *)
(***************************************************************************)
Get(d, key, default) == IF key \in DOMAIN d THEN d[key] ELSE default

GetOrNone(d, key) == Get(d, key, None)

OrZero(v) == IF v = None \/ v = 0 THEN 0 ELSE v

(***************************************************************************)
(* round(x, n) and the :.4f format: to the nearest multiple of step, ties  *)
(* to the even multiple (x >= 0).                                          *)
(***************************************************************************)
RoundTo(x, step) ==
    LET lo == (x \div step) * step
        r  == x - lo
    IN  IF 2 * r < step THEN lo
        ELSE IF 2 * r > step THEN lo + step
        ELSE IF (lo \div step) % 2 = 0 THEN lo ELSE lo + step

PStep == 10

ConfStep == 10

Round4(p) == RoundTo(p, PStep)

Round3(c) == RoundTo(c, ConfStep)

---------------------------------------------------------------------------
(***************************************************************************)
(* ClinicalReasoner.generate_recommendation                                *)
(***************************************************************************)
POne == 100000

P001 == 1000

P005 == 5000

StrongPapers == 10

StrongDiff == 12

ModeratePapers == 8

StrongConfidence == 9400

ModerateConfidence == 8700

WeakConfidence == 6200

RecommendationText ==
    "Pembrolizumab is preferred over nivolumab as first-line therapy in advanced melanoma"

\* the operands of the subtraction exchanged
median_os_diff_buggy(evidence) ==
    OrZero(Get(evidence, "median_nivolumab", 0))
        - OrZero(Get(evidence, "median_pembrolizumab", 0))

\* line 13
median_os_diff(evidence) ==
    OrZero(Get(evidence, "median_pembrolizumab", 0))
        - OrZero(Get(evidence, "median_nivolumab", 0))

IsStrongBuggy(p_value, papers_found, diff) ==
    p_value < P001 /\ papers_found > StrongPapers /\ diff >= StrongDiff

IsStrong(p_value, papers_found, diff) ==
    p_value < P001 /\ papers_found >= StrongPapers /\ diff >= StrongDiff

IsModerate(p_value, papers_found) ==
    p_value < P005 /\ papers_found >= ModeratePapers

generate_recommendation(evidence) ==
    LET p_value      == Get(evidence, "p_value", POne)
        papers_found == Get(evidence, "total_papers", 0)
        diff         == median_os_diff(evidence)
        tier == IF IsStrong(p_value, papers_found, diff) THEN
                    [confidence |-> StrongConfidence,
                     strength   |-> "Strong recommendation",
                     grade      |-> "1A"]
                ELSE IF IsModerate(p_value, papers_found) THEN
                    [confidence |-> ModerateConfidence,
                     strength   |-> "Moderate recommendation",
                     grade      |-> "1B"]
                ELSE
                    [confidence |-> WeakConfidence,
                     strength   |-> "Weak recommendation",
                     grade      |-> "2C"]
    IN  [recommendation             |-> RecommendationText,
         confidence_score           |-> tier.confidence,
         strength_of_recommendation |-> tier.strength,
         grade                      |-> tier.grade,
         rationale                  |-> [p |-> Round4(p_value),
                                         publications |-> papers_found,
                                         os_benefit |-> diff]]

---------------------------------------------------------------------------
(***************************************************************************)
(* DoctorAgent.review_recommendation                                       *)
(***************************************************************************)
DefaultConfidence == 8700

MinConfidence == 7000

DoseComment ==
    "Confidence too low. Recommend reducing pembrolizumab dose or adding corticosteroid prophylaxis."

TrialComment ==
    "Evidence not strong enough for first-line recommendation. Suggest clinical trial enrollment."

ApproveComment ==
    "Strong evidence and acceptable safety profile. Proceed with recommendation."

DoctorName == "Dr. Sarah Johnson, MD - Medical Oncology"

ReviewTimestamp == "2025-11-27 14:32"

\* the outcome of a call that raises, and the marker of a subscript that does
Raised(exc) == [raised |-> exc]

KeyError == "KeyError: 'recommendation'"

ConfidenceTooLowBuggy(confidence) == confidence <= MinConfidence

ConfidenceTooLow(confidence) == confidence < MinConfidence

\* the threshold of the Strong tier taken for that of the review
PValueTooHighBuggy(p_value) == p_value > P001

PValueTooHigh(p_value) == p_value > P005

\* the if / elif / else of lines 25-33
review_decision(ai_output) ==
    LET confidence == Get(ai_output, "confidence_score", DefaultConfidence)
    IN  IF ConfidenceTooLow(confidence) THEN
            [decision |-> "modify", comment |-> DoseComment]
        ELSE IF PValueTooHigh(Get(ai_output, "p_value", POne)) THEN
            [decision |-> "modify", comment |-> TrialComment]
        ELSE
            [decision |-> "approve", comment |-> ApproveComment]

final_recommendation_buggy(ai_output, decision, comment) ==
    IF "recommendation" \in DOMAIN ai_output
    THEN ai_output.recommendation ELSE KeyError

\* ai_output["recommendation"] if decision == "approve" else comment;
\* the subscript is evaluated, and can raise, only on approve
final_recommendation(ai_output, decision, comment) ==
    IF decision = "approve"
    THEN IF "recommendation" \in DOMAIN ai_output
         THEN ai_output.recommendation ELSE KeyError
    ELSE comment

review_recommendation(ai_output) ==
    LET confidence == Get(ai_output, "confidence_score", DefaultConfidence)
        d          == review_decision(ai_output)
        final      == final_recommendation(ai_output, d.decision, d.comment)
    IN  IF final = KeyError THEN Raised("KeyError")
        ELSE [doctor_decision      |-> d.decision,
              doctor_name          |-> DoctorName,
              timestamp            |-> ReviewTimestamp,
              confidence_score     |-> Round3(confidence),
              comment              |-> d.comment,
              final_recommendation |-> final]

---------------------------------------------------------------------------
(***************************************************************************)
(* The two search tools.  What the PubMed client and Google Scholar answer *)
(* is the environment's choice: a reply is an input of the model.          *)
(*   PubMed reply : [raises |-> TRUE], or [raises |-> FALSE, articles |->  *)
(*                  a sequence of [title, parses]]; an article with        *)
(*                  parses = FALSE throws while its fields are read.       *)
(*   Scholar reply: [raises |-> TRUE], or [raises |-> FALSE, status_code,  *)
(*                  items |-> a sequence of [title, has_title]].           *)
(***************************************************************************)
Head_n(seq, n) == SubSeq(seq, 1, IF Len(seq) < n THEN Len(seq) ELSE n)

PubmedPaper(article) == [title |-> article.title]

\* the loop of lines 58-93: an article whose fields cannot be read is skipped
RECURSIVE ParsedPapers(_)
ParsedPapers(articles) ==
    IF articles = <<>> THEN <<>>
    ELSE LET rest == ParsedPapers(SubSeq(articles, 1, Len(articles) - 1))
             article == articles[Len(articles)]
         IN  IF article.parses THEN Append(rest, PubmedPaper(article)) ELSE rest

search_pubmed(query, max_results, min_year, reply) ==
    IF reply.raises THEN
        [status        |-> "error",
         error_message |-> "PubMed search failed",
         papers        |-> <<>>,
         total_found   |-> 0,
         query         |-> query]
    ELSE
        LET papers == ParsedPapers(reply.articles)
        IN  [status        |-> "success",
             papers        |-> papers,
             total_found   |-> Len(papers),
             query         |-> query,
             search_params |-> [max_results |-> max_results,
                                min_year    |-> min_year]]

HttpOk == 200

ScholarPaper(item) == [title |-> item.title, source |-> "Google Scholar"]

\* the loop of lines 50-78: an item without a title link is skipped
RECURSIVE TitledPapers(_)
TitledPapers(items) ==
    IF items = <<>> THEN <<>>
    ELSE LET rest == TitledPapers(SubSeq(items, 1, Len(items) - 1))
             item == items[Len(items)]
         IN  IF item.has_title THEN Append(rest, ScholarPaper(item)) ELSE rest

\* the status-code check left out
search_scholar_buggy(query, max_results, reply) ==
    IF reply.raises THEN
        [status |-> "error", error |-> "exception", papers |-> <<>>]
    ELSE
        LET papers == TitledPapers(Head_n(reply.items, max_results))
        IN  [status      |-> "success",
             papers      |-> papers,
             total_found |-> Len(papers)]

search_scholar(query, max_results, reply) ==
    IF reply.raises THEN
        [status |-> "error", error |-> "exception", papers |-> <<>>]
    ELSE IF reply.status_code # HttpOk THEN
        [status |-> "error", message |-> "HTTP error", papers |-> <<>>]
    ELSE
        LET papers == TitledPapers(Head_n(reply.items, max_results))
        IN  [status      |-> "success",
             papers      |-> papers,
             total_found |-> Len(papers)]

---------------------------------------------------------------------------
(***************************************************************************)
(* LiteratureAgent                                                         *)
(***************************************************************************)
PubmedMaxResults == 12

PubmedMinYear == 2023

ScholarMaxResults == 6

MaxPayload == 20

ModelName == "gemini-2.5-flash"

NoResultsSummary == "No publications found matching the query criteria."

\* PubMed listed whatever its count
_generate_summary_buggy(pubmed_count, scholar_count) ==
    LET parts == <<[count |-> pubmed_count, from |-> "PubMed"]>>
                 \o
                 (IF scholar_count > 0
                  THEN <<[count |-> scholar_count, from |-> "Google Scholar"]>>
                  ELSE <<>>)
    IN  [text |-> "Retrieved ... covering recent advances in the specified research area (2023-2025).",
         parts |-> parts]

\* the summary string, kept as its parts: which sources it lists, with which
\* counts, in the order they are joined with " and "
_generate_summary(pubmed_count, scholar_count) ==
    LET parts == (IF pubmed_count > 0
                  THEN <<[count |-> pubmed_count, from |-> "PubMed"]>>
                  ELSE <<>>)
                 \o
                 (IF scholar_count > 0
                  THEN <<[count |-> scholar_count, from |-> "Google Scholar"]>>
                  ELSE <<>>)
    IN  IF parts = <<>>
        THEN [text |-> NoResultsSummary, parts |-> <<>>]
        ELSE [text |-> "Retrieved ... covering recent advances in the specified research area (2023-2025).",
              parts |-> parts]

\* {"source": "PubMed", **p}: the keys of p win
TagPubmed(p) == p @@ [source |-> "PubMed"]

SourcePapers(result) ==
    IF Get(result, "status", "absent") = "success"
    THEN Get(result, "papers", <<>>) ELSE <<>>

AllPapersBuggy(pubmed_papers, scholar_papers) ==
    scholar_papers \o [i \in 1..Len(pubmed_papers) |-> TagPubmed(pubmed_papers[i])]

AllPapers(pubmed_papers, scholar_papers) ==
    [i \in 1..Len(pubmed_papers) |-> TagPubmed(pubmed_papers[i])] \o scholar_papers

\* agg_raises: an exception escapes the try block (lines 40-87) other than
\* from the two tools, which catch their own
query_result(user_query, pubmed_reply, scholar_reply, agg_raises) ==
    IF agg_raises THEN
        [status |-> "error", error |-> "exception", query |-> user_query]
    ELSE
        LET pubmed_result  == search_pubmed(user_query, PubmedMaxResults,
                                            PubmedMinYear, pubmed_reply)
            scholar_result == search_scholar(user_query, ScholarMaxResults,
                                             scholar_reply)
            pubmed_papers  == SourcePapers(pubmed_result)
            scholar_papers == SourcePapers(scholar_result)
            all_papers     == AllPapers(pubmed_papers, scholar_papers)
        IN  [status        |-> "success",
             query         |-> user_query,
             total_found   |-> Len(all_papers),
             papers        |-> Head_n(all_papers, MaxPayload),
             sources_used  |-> <<"PubMed", "Google Scholar">>,
             pubmed_count  |-> Len(pubmed_papers),
             scholar_count |-> Len(scholar_papers),
             model_used    |-> ModelName,
             analysis      |-> _generate_summary(Len(pubmed_papers),
                                                 Len(scholar_papers))]

---------------------------------------------------------------------------
(***************************************************************************)
(* perform_survival_analysis and AnalysisAgent.analyze_survival.  The      *)
(* data set is embedded, the estimator and the log-rank test are library   *)
(* calls: what they yield (or that a step inside the try block raises) is  *)
(* the outcome, an input of the model.                                     *)
(*   outcome: [raises |-> TRUE], or [raises |-> FALSE, p_value,            *)
(*            test_statistic, median_pembrolizumab, median_nivolumab]      *)
(***************************************************************************)
FigurePath == "outputs/figures/km_survival_analysis.png"

\* how an f-string renders a median (None prints as "None")
Render(median) == IF median = None THEN "None" ELSE ToString(median)

\* median or <text>: None and 0.0 are falsy
RenderOr(median, text) == IF OrZero(median) = 0 THEN text ELSE Render(median)

Significance(p_value) ==
    IF p_value < P005 THEN "statistically significant"
    ELSE "not statistically significant"

\* the interpretation string, kept as the values substituted into it
Interpretation(outcome) ==
    [p_value       |-> Round4(outcome.p_value),
     significance  |-> Significance(outcome.p_value),
     pembrolizumab |-> RenderOr(outcome.median_pembrolizumab, "Not reached"),
     nivolumab     |-> Render(outcome.median_nivolumab)]

perform_survival_analysis(outcome) ==
    IF outcome.raises THEN
        [status |-> "error", error |-> "exception"]
    ELSE
        [status               |-> "success",
         figure_path          |-> FigurePath,
         p_value              |-> Round4(outcome.p_value),
         median_pembrolizumab |-> outcome.median_pembrolizumab,
         median_nivolumab     |-> outcome.median_nivolumab,
         interpretation       |-> Interpretation(outcome),
         test_statistic       |-> Round4(outcome.test_statistic)]

analyze_survival(outcome) ==
    LET result == perform_survival_analysis(outcome)
    IN  IF result.status # "success" THEN
            [status  |-> "error",
             message |-> Get(result, "error", "Unknown analysis error")]
        ELSE
            [status               |-> "success",
             summary              |->
                 [p_value        |-> result.p_value,
                  test_statistic |-> result.test_statistic,
                  pembro         |-> RenderOr(result.median_pembrolizumab, "N/A"),
                  nivo           |-> RenderOr(result.median_nivolumab, "N/A"),
                  interpretation |-> result.interpretation,
                  figure         |-> result.figure_path],
             figure_path          |-> result.figure_path,
             p_value              |-> result.p_value,
             median_pembrolizumab |-> result.median_pembrolizumab,
             median_nivolumab     |-> result.median_nivolumab]

---------------------------------------------------------------------------
(***************************************************************************)
(* calculate_irae_risk                                                     *)
(***************************************************************************)
calculate_irae_risk ==
    [any_grade_irae |-> "58%",
     grade_3_4_irae |-> "18%",
     endocrine_irae |-> "42%",
     pneumonitis    |-> "7%",
     colitis        |-> "4%",
     hepatitis      |-> "6%",
     recommendation |->
         "Initiate thyroid function monitoring at baseline and every 6 weeks"]

---------------------------------------------------------------------------
(***************************************************************************)
(* OncologyMemoryService: the research_memory table behind one shared      *)
(* scoped session.  Whether the storage accepts a write (json.dumps and    *)
(* commit succeed) is the environment's choice, storage_ok; the read of    *)
(* entry.id after a commit that succeeded is taken to succeed too.         *)
(***************************************************************************)
\* json.dumps / json.loads of a findings dict.  The stored text is kept as
\* one JSON token per key: a string in quotes, None as null, a number in
\* digits.  (The keys that hold numbers are those of the findings main
\* passes; every other value is a string.)
NumberKeys == {"total_papers", "p_value", "confidence"}

json_token(key, v) ==
    IF key \in NumberKeys
    THEN IF v = None THEN "null" ELSE ToString(v)
    ELSE "\"" \o v \o "\""

Digit(c) == CHOOSE d \in 0..9 : ToString(d) = c

RECURSIVE ParseNat(_)
ParseNat(t) ==
    IF Len(t) = 0 THEN 0
    ELSE ParseNat(SubSeq(t, 1, Len(t) - 1)) * 10
            + Digit(SubSeq(t, Len(t), Len(t)))

json_value(key, t) ==
    IF key \in NumberKeys
    THEN IF t = "null" THEN None ELSE ParseNat(t)
    ELSE SubSeq(t, 2, Len(t) - 1)

json_dumps(d) == [k \in DOMAIN d |-> json_token(k, d[k])]

json_loads(t) == [k \in DOMAIN t |-> json_value(k, t[k])]

ResearchMemory(session_id, q, cancer_type, findings, now) ==
    [id          |-> None,
     session_id  |-> session_id,
     query       |-> q,
     cancer_type |-> cancer_type,
     findings    |-> json_dumps(findings),
     timestamp   |-> now]

\* an upsert: the rows of the same session id are replaced
CommitBuggy(table, added) ==
    LET kept == SelectSeq(table, LAMBDA r :
                    \A i \in DOMAIN added : added[i].session_id # r.session_id)
    IN  kept \o [i \in 1..Len(added) |-> [added[i] EXCEPT !.id = Len(table) + i]]

\* session.commit(): the pending objects are inserted, each given the next id
Commit(table, added) ==
    table \o [i \in 1..Len(added) |-> [added[i] EXCEPT !.id = Len(table) + i]]

\* session.rollback(): the pending objects are expunged
RollbackBuggy(added) == added

Rollback(added) == <<>>

\* the commit of save_doctor_review left out: its row stays pending until
\* the next commit of the shared session
AddAndCommitBuggy(table, added, row, storage_ok) ==
    IF storage_ok /\ row.cancer_type = "clinical_decision"
    THEN [rows |-> table, pending |-> Append(added, row), raised |-> FALSE]
    ELSE IF storage_ok
    THEN [rows |-> Commit(table, Append(added, row)), pending |-> <<>>,
          raised |-> FALSE]
    ELSE [rows |-> table, pending |-> Rollback(Append(added, row)),
          raised |-> TRUE]

\* session.add(entry); session.commit(), and on an exception
\* session.rollback() and re-raise: the new <<rows, pending, raised>>
AddAndCommit(table, added, row, storage_ok) ==
    IF storage_ok
    THEN [rows |-> Commit(table, Append(added, row)), pending |-> <<>>,
          raised |-> FALSE]
    ELSE [rows |-> table, pending |-> Rollback(Append(added, row)),
          raised |-> TRUE]

save_research_row(session_id, q, cancer_type, findings, now) ==
    ResearchMemory(session_id, q, cancer_type, findings, now)

\* lines 114-119: the record save_doctor_review stores as findings
review_record(decision, doctor_name, comment, now) ==
    [decision  |-> decision,
     doctor    |-> doctor_name,
     comment   |-> comment,
     timestamp |-> ToString(now)]

save_doctor_review_row(session_id, decision, doctor_name, comment, now) ==
    ResearchMemory(session_id, "Physician Review", "clinical_decision",
                   review_record(decision, doctor_name, comment, now), now)

\* filter_by(session_id=...).first(): the matching row of lowest id
get_session(table, session_id) ==
    LET hits == {i \in DOMAIN table : table[i].session_id = session_id}
    IN  IF hits = {} THEN [found |-> FALSE]
        ELSE LET e == table[CHOOSE i \in hits : \A j \in hits : i <= j]
             IN  [found       |-> TRUE,
                  id          |-> e.id,
                  query       |-> e.query,
                  cancer_type |-> e.cancer_type,
                  findings    |-> json_loads(e.findings),
                  timestamp   |-> e.timestamp]

ApprovalSessionId == "melanoma_clinical_review_2025"

WorkflowSessionId == "melanoma_workflow_2025"

SessionIds == {ApprovalSessionId, WorkflowSessionId}

\* the store step of a save call, with the history of the call: which call,
\* the findings dict it was to store, whether it returned, the rows before
\* it, and how many calls have returned so far for each session id
SaveStep(op, row, findings, storage_ok) ==
    LET out == AddAndCommit(rows, pending, row, storage_ok)
    IN  /\ rows' = out.rows
        /\ pending' = out.pending
        /\ clock' = clock + 1
        /\ last' = [op |-> op, session_id |-> row.session_id,
                    findings |-> findings,
                    ok |-> ~out.raised, before |-> rows,
                    oks |-> IF out.raised THEN last.oks
                            ELSE [last.oks EXCEPT ![row.session_id] = @ + 1]]

NoCall == [op |-> "none", oks |-> [sid \in SessionIds |-> 0]]

---------------------------------------------------------------------------
(***************************************************************************)
(* OncologySupervisor.process_query, stage by stage                        *)
(***************************************************************************)
\* the paper count taken from PubMed alone
EvidencePubmedOnlyBuggy(lit, analysis) ==
    [p_value              |-> Get(analysis, "p_value", POne),
     total_papers         |-> Get(lit, "pubmed_count", 0),
     median_pembrolizumab |-> GetOrNone(analysis, "median_pembrolizumab"),
     median_nivolumab     |-> GetOrNone(analysis, "median_nivolumab")]

\* an absent p_value taken as 0
EvidenceNoPValueBuggy(lit, analysis) ==
    [p_value              |-> Get(analysis, "p_value", 0),
     total_papers         |-> Get(lit, "total_found", 0),
     median_pembrolizumab |-> GetOrNone(analysis, "median_pembrolizumab"),
     median_nivolumab     |-> GetOrNone(analysis, "median_nivolumab")]

\* an absent total_found taken as 1
EvidenceBuggy(lit, analysis) ==
    [p_value              |-> Get(analysis, "p_value", POne),
     total_papers         |-> Get(lit, "total_found", 1),
     median_pembrolizumab |-> GetOrNone(analysis, "median_pembrolizumab"),
     median_nivolumab     |-> GetOrNone(analysis, "median_nivolumab")]

\* lines 46-51: an absent p_value becomes 1.0, an absent total_found 0, an
\* absent median None
Evidence(lit, analysis) ==
    [p_value              |-> Get(analysis, "p_value", POne),
     total_papers         |-> Get(lit, "total_found", 0),
     median_pembrolizumab |-> GetOrNone(analysis, "median_pembrolizumab"),
     median_nivolumab     |-> GetOrNone(analysis, "median_nivolumab")]

\* lines 55-59
ReviewInput(rec, evidence) ==
    [recommendation   |-> rec.recommendation,
     confidence_score |-> rec.confidence_score,
     p_value          |-> evidence.p_value]

\* process_query as one call: the dict it returns for a query, given what the
\* two search services answer and what the survival computation yields
process_query(user_query, pubmed_reply, scholar_reply, agg_raises, outcome) ==
    LET lit      == query_result(user_query, pubmed_reply, scholar_reply,
                                 agg_raises)
        analysis == analyze_survival(outcome)
        evidence == Evidence(lit, analysis)
        rec      == generate_recommendation(evidence)
    IN  [literature     |-> lit,
         analysis       |-> analysis,
         recommendation |-> rec,
         doctor_review  |-> review_recommendation(ReviewInput(rec, evidence)),
         risk_profile   |-> calculate_irae_risk]

---------------------------------------------------------------------------
(***************************************************************************)
(* Unit calls of the pure functions: Init draws the input, the action      *)
(* applies the function.                                                   *)
(***************************************************************************)
MaxPapers == 12

StoreInit ==
    /\ rows = <<>>
    /\ pending = <<>>
    /\ clock = 0
    /\ last = NoCall

RunIdle ==
    /\ pc = "idle"
    /\ entry = "none"
    /\ api_key = "none"
    /\ run_query = "none"
    /\ lit_result = Unset
    /\ analysis_result = Unset
    /\ recommendation = Unset
    /\ doctor_review = Unset
    /\ risk_profile = Unset
    /\ error = "none"
    /\ log = <<>>

UnitIdle ==
    /\ fn = "none"
    /\ arg = NoRet
    /\ ret = NoRet

\* p-values around both thresholds, none on a rounding tie
PValues == {0, 500, 990, 1000, 1010, 3000, 4990, 5000, 5010, 20000, POne}

\* medians: not reached (None), or months giving differences on both sides
\* of the 12-month threshold (20 - 8 = 12, 20 - 9 = 11, 20 - 6 = 14)
MedianValues == {None, 0, 3, 6, 8, 9, 20}

\* the records over the keys ks whose values are drawn from dom[k]
RECURSIVE Dicts(_, _)
Dicts(ks, dom) ==
    IF ks = {} THEN {<<>>}
    ELSE LET k == CHOOSE x \in ks : TRUE
         IN  {(k :> v) @@ d : v \in dom[k], d \in Dicts(ks \ {k}, dom)}

\* the dicts that carry the keys of must and any of the keys of may
DictsWith(must, may, dom) ==
    UNION {Dicts(must \cup opt, dom) : opt \in SUBSET may}

EvidenceDomain ==
    [p_value              |-> PValues,
     total_papers         |-> 0..MaxPapers,
     median_pembrolizumab |-> MedianValues,
     median_nivolumab     |-> MedianValues]

EvidenceInputs ==
    DictsWith({}, {"p_value", "total_papers", "median_pembrolizumab",
                   "median_nivolumab"}, EvidenceDomain)

InitScorer ==
    /\ fn = "generate_recommendation"
    /\ arg \in EvidenceInputs
    /\ ret = NoRet
    /\ StoreInit /\ RunIdle

CallGenerateRecommendation ==
    /\ fn = "generate_recommendation"
    /\ ret = NoRet
    /\ ret' = generate_recommendation(arg)
    /\ UNCHANGED <<fn, arg, storeVars, runVars>>

NextScorer == CallGenerateRecommendation

SpecScorer == InitScorer /\ [][NextScorer]_vars

\* confidences around the 0.70 threshold, none on a rounding tie
Confidences == {0, 6200, 6500, 6990, 6999, 7000, 7001, 7010, 8700, 9000, 9400, 10000}

OtherText == "Nivolumab is preferred"

ReviewDomain ==
    [recommendation   |-> {RecommendationText, OtherText},
     confidence_score |-> Confidences,
     p_value          |-> PValues]

ReviewInputs ==
    DictsWith({}, {"recommendation", "confidence_score", "p_value"}, ReviewDomain)

InitReview ==
    /\ fn = "review_recommendation"
    /\ arg \in ReviewInputs
    /\ ret = NoRet
    /\ StoreInit /\ RunIdle

CallReviewRecommendation ==
    /\ fn = "review_recommendation"
    /\ ret = NoRet
    /\ ret' = review_recommendation(arg)
    /\ UNCHANGED <<fn, arg, storeVars, runVars>>

NextReview == CallReviewRecommendation

SpecReview == InitReview /\ [][NextReview]_vars

\* The PubMed client is asked for PubmedMaxResults articles, but
\* search_pubmed takes whatever it yields without cutting it: the model lets
\* a reply hold up to MaxHits articles, at most one of them unparseable.
MaxHits == 15

MaxItems == 8

HttpTooMany == 429

Articles(n, bad) == [i \in 1..n |-> [title |-> i, parses |-> (i # bad)]]

PubmedReplies ==
    {[raises |-> TRUE]}
        \cup {[raises |-> FALSE, articles |-> Articles(n, bad)] :
                <<n, bad>> \in {x \in (0..MaxHits) \X (0..MaxHits) : x[2] <= x[1]}}

Items(m, untitled) ==
    [j \in 1..m |-> [title |-> 100 + j, has_title |-> (j # untitled)]]

ScholarReplies ==
    {[raises |-> TRUE],
     [raises |-> FALSE, status_code |-> HttpTooMany, items |-> Items(2, 0)]}
        \cup {[raises |-> FALSE, status_code |-> HttpOk, items |-> Items(m, u)] :
                <<m, u>> \in {x \in (0..MaxItems) \X (0..MaxItems) : x[2] <= x[1]}}

CliQuery == "pembrolizumab AND melanoma AND (2024/01/01:2025/12/31[PDAT])"

OtherQuery == "nivolumab AND lung cancer AND (2024/01/01:2024/12/31[PDAT])"

InitLiterature ==
    /\ fn = "query"
    /\ arg \in [user_query    : {CliQuery, OtherQuery},
                pubmed_reply  : PubmedReplies,
                scholar_reply : ScholarReplies,
                agg_raises    : BOOLEAN]
    /\ ret = NoRet
    /\ StoreInit /\ RunIdle

CallQuery ==
    /\ fn = "query"
    /\ ret = NoRet
    /\ ret' = query_result(arg.user_query, arg.pubmed_reply,
                           arg.scholar_reply, arg.agg_raises)
    /\ UNCHANGED <<fn, arg, storeVars, runVars>>

NextLiterature == CallQuery

SpecLiterature == InitLiterature /\ [][NextLiterature]_vars

---------------------------------------------------------------------------
(***************************************************************************)
(* Unit calls of perform_survival_analysis and of analyze_survival.  What  *)
(* KaplanMeierFitter and logrank_test yield is drawn by Init: the embedded *)
(* data give p = 0.0083 and medians of 28 and 6 months; the other values   *)
(* are what the code would be handed for other data.                       *)
(***************************************************************************)
AnalysisPValues ==
    {0, 830, 996, 1004, 3000, 4994, 4996, 5004, 5006, 20000, POne}

AnalysisMedians == {None, 6, 9, 28}

AnalysisOutcomes ==
    {[raises |-> TRUE]}
        \cup [raises               : {FALSE},
              p_value              : AnalysisPValues,
              test_statistic       : {696806},
              median_pembrolizumab : AnalysisMedians,
              median_nivolumab     : AnalysisMedians]

InitAnalysis ==
    /\ fn \in {"perform_survival_analysis", "analyze_survival"}
    /\ arg \in AnalysisOutcomes
    /\ ret = NoRet
    /\ StoreInit /\ RunIdle

CallPerformSurvivalAnalysis ==
    /\ fn = "perform_survival_analysis" /\ ret = NoRet
    /\ ret' = perform_survival_analysis(arg)
    /\ UNCHANGED <<fn, arg, storeVars, runVars>>

CallAnalyzeSurvival ==
    /\ fn = "analyze_survival" /\ ret = NoRet
    /\ ret' = analyze_survival(arg)
    /\ UNCHANGED <<fn, arg, storeVars, runVars>>

NextAnalysis == CallPerformSurvivalAnalysis \/ CallAnalyzeSurvival

SpecAnalysis == InitAnalysis /\ [][NextAnalysis]_vars

---------------------------------------------------------------------------
(***************************************************************************)
(* Two calls of process_query side by side, each with its own query, its   *)
(* own answers of the search services and its own survival outcome.        *)
(***************************************************************************)
PairPubmedReplies ==
    {[raises |-> TRUE]}
        \cup {[raises |-> FALSE, articles |-> Articles(n, 0)] : n \in {0, 8, 10}}

PairScholarReplies ==
    {[raises |-> TRUE],
     [raises |-> FALSE, status_code |-> HttpOk, items |-> Items(2, 0)]}

PairOutcomes ==
    {[raises |-> TRUE],
     [raises |-> FALSE, p_value |-> 830, test_statistic |-> 696806,
      median_pembrolizumab |-> 28, median_nivolumab |-> 6],
     [raises |-> FALSE, p_value |-> 3000, test_statistic |-> 470000,
      median_pembrolizumab |-> 28, median_nivolumab |-> 6],
     [raises |-> FALSE, p_value |-> 830, test_statistic |-> 696806,
      median_pembrolizumab |-> None, median_nivolumab |-> 6]}

PairCalls ==
    [user_query    : {CliQuery, OtherQuery},
     pubmed_reply  : PairPubmedReplies,
     scholar_reply : PairScholarReplies,
     agg_raises    : BOOLEAN,
     outcome       : PairOutcomes]

InitPair ==
    /\ fn = "process_query"
    /\ arg \in [first : PairCalls, second : PairCalls]
    /\ ret = NoRet
    /\ StoreInit /\ RunIdle

CallOf(call) ==
    process_query(call.user_query, call.pubmed_reply, call.scholar_reply,
                  call.agg_raises, call.outcome)

CallProcessQueryTwice ==
    /\ fn = "process_query" /\ ret = NoRet
    /\ ret' = [first |-> CallOf(arg.first), second |-> CallOf(arg.second)]
    /\ UNCHANGED <<fn, arg, storeVars, runVars>>

NextPair == CallProcessQueryTwice

SpecPair == InitPair /\ [][NextPair]_vars

---------------------------------------------------------------------------
(***************************************************************************)
(* Calls of the memory service in any order, on one shared session.        *)
(***************************************************************************)
MaxCalls == 3

SampleFindings ==
    {[total_papers |-> 14, p_value |-> 500, grade |-> "1A",
      physician_decision |-> "approve", confidence |-> StrongConfidence],
     [total_papers |-> None, p_value |-> None, grade |-> "2C",
      physician_decision |-> "modify", confidence |-> WeakConfidence]}

InitStore ==
    /\ fn = "store"
    /\ arg = NoRet
    /\ ret = NoRet
    /\ StoreInit /\ RunIdle

\* the id of the row the call inserted, or the exception re-raised
SaveResult(storage_ok) ==
    IF storage_ok THEN [id |-> Len(rows) + Len(pending) + 1]
    ELSE Raised("storage error")

CallSaveResearch ==
    /\ fn = "store"
    /\ clock < MaxCalls
    /\ \E session_id \in SessionIds, findings \in SampleFindings,
          storage_ok \in BOOLEAN :
          /\ arg' = [op |-> "save_research", session_id |-> session_id,
                     findings |-> findings]
          /\ SaveStep("save_research",
                      save_research_row(session_id, CliQuery, "melanoma",
                                        findings, clock),
                      findings, storage_ok)
          /\ ret' = SaveResult(storage_ok)
    /\ UNCHANGED <<fn, runVars>>

CallSaveDoctorReview ==
    /\ fn = "store"
    /\ clock < MaxCalls
    /\ \E session_id \in SessionIds, decision \in {"approved", "modify"},
          storage_ok \in BOOLEAN :
          /\ arg' = [op |-> "save_doctor_review", session_id |-> session_id,
                     decision |-> decision]
          /\ SaveStep("save_doctor_review",
                      save_doctor_review_row(session_id, decision, DoctorName,
                                             "", clock),
                      review_record(decision, DoctorName, "", clock),
                      storage_ok)
          /\ ret' = SaveResult(storage_ok)
    /\ UNCHANGED <<fn, runVars>>

CallGetSession ==
    /\ fn = "store"
    /\ \E session_id \in SessionIds :
          /\ arg' = [op |-> "get_session", session_id |-> session_id]
          /\ ret' = get_session(rows, session_id)
    /\ UNCHANGED <<fn, storeVars, runVars>>

NextStore == CallSaveResearch \/ CallSaveDoctorReview \/ CallGetSession

SpecStore == InitStore /\ [][NextStore]_vars

---------------------------------------------------------------------------
(***************************************************************************)
(* One run of the program: main() of the CLI, or the "Run Clinical         *)
(* Analysis" handler of the dashboard.                                     *)
(***************************************************************************)
LowerChar(c) ==
    CASE c = "Y" -> "y" [] c = "O" -> "o" [] c = "U" -> "u" [] c = "R" -> "r"
      [] c = "A" -> "a" [] c = "P" -> "p" [] c = "I" -> "i" [] c = "K" -> "k"
      [] c = "E" -> "e" [] c = "H" -> "h" [] OTHER -> c

RECURSIVE Lower(_)
Lower(str) ==
    IF Len(str) = 0 THEN ""
    ELSE LowerChar(SubSeq(str, 1, 1)) \o Lower(SubSeq(str, 2, Len(str)))

Contains(str, sub) ==
    \E i \in 1..(Len(str) - Len(sub) + 1) :
        SubSeq(str, i, i + Len(sub) - 1) = sub

\* os.getenv gives None for an unset variable: the empty string stands for
\* both, "not api_key" holds of either
ApiKeys == {"", "YOUR_API_KEY_HERE", "your_api-token", "AIzaSy-valid"}

\* the not api_key test left out
CliKeyRefusedBuggy(key) == Contains(Lower(key), "your_api_key")

\* the placeholder test left out
DashboardKeyRefusedBuggy(key) == key = ""

CliKeyRefused(key) == key = "" \/ Contains(Lower(key), "your_api_key")

DashboardKeyRefused(key) == key = "" \/ Contains(Lower(key), "your_api")

KeyRefused == IF entry = "cli" THEN CliKeyRefused(api_key)
              ELSE DashboardKeyRefused(api_key)

\* the store a run starts from: empty, or the two rows an earlier approved
\* CLI run left
EarlierRows ==
    Commit(Commit(<<>>,
        <<save_doctor_review_row(ApprovalSessionId, "approved", DoctorName,
              "Approved via Doctor-in-the-Loop system", 0)>>),
        <<save_research_row(WorkflowSessionId, CliQuery, "melanoma",
              [total_papers |-> 14, p_value |-> 500, grade |-> "1A",
               physician_decision |-> "approve",
               confidence |-> StrongConfidence], 1)>>)

InitialStores == {<<>>, EarlierRows}

\* what the services answer in a run
RunPubmedReplies ==
    {[raises |-> TRUE]}
        \cup {[raises |-> FALSE, articles |-> Articles(n, 0)] :
                n \in {0, 7, 8, 10, PubmedMaxResults}}

RunScholarReplies ==
    {[raises |-> TRUE],
     [raises |-> FALSE, status_code |-> HttpOk, items |-> Items(2, 0)]}

\* what the survival computation yields in a run: p-values on both sides of
\* 0.01 and 0.05, two of which round up onto the threshold
RunOutcomes ==
    {[raises |-> TRUE]}
        \cup [raises               : {FALSE},
              p_value              : {830, 996, 3000, 4996, 20000},
              test_statistic       : {696806},
              median_pembrolizumab : {None, 28},
              median_nivolumab     : {None, 6, 8}]

Init ==
    /\ UnitIdle
    /\ rows \in InitialStores
    /\ pending = <<>>
    /\ clock = Len(rows)
    /\ last = NoCall
    /\ pc = "start"
    /\ entry \in {"cli", "dashboard"}
    /\ api_key \in ApiKeys
    /\ run_query \in IF entry = "cli" THEN {CliQuery} ELSE {CliQuery, OtherQuery}
    /\ lit_result = Unset
    /\ analysis_result = Unset
    /\ recommendation = Unset
    /\ doctor_review = Unset
    /\ risk_profile = Unset
    /\ error = "none"
    /\ log = <<>>

\* main.py 27-30, app.py 133-136: the error line and return, or st.error
\* and st.stop
CheckCredential ==
    /\ pc = "start"
    /\ pc' = IF KeyRefused THEN "refused" ELSE "construct"
    /\ error' = IF KeyRefused THEN "configuration error" ELSE error
    /\ UNCHANGED <<unitVars, storeVars, entry, api_key, run_query, lit_result,
                   analysis_result, recommendation, doctor_review,
                   risk_profile, log>>

\* LiteratureAgent.__init__, lines 24-26: raise ValueError without a key
ConstructorRaises(key) == key = ""

\* OncologySupervisor(...): main.py 34 stands before the try block, so an
\* exception of the constructor leaves main; app.py 140 stands inside it
Construct ==
    /\ pc = "construct"
    /\ pc' = IF ~ConstructorRaises(api_key) THEN "retrieve"
             ELSE IF entry = "cli" THEN "crashed" ELSE "done"
    /\ error' = IF ConstructorRaises(api_key) THEN "ValueError" ELSE error
    /\ UNCHANGED <<unitVars, storeVars, entry, api_key, run_query, lit_result,
                   analysis_result, recommendation, doctor_review,
                   risk_profile, log>>

\* supervisor.py 32-35
Retrieve ==
    /\ pc = "retrieve"
    /\ \E pubmed_reply \in RunPubmedReplies, scholar_reply \in RunScholarReplies,
          agg_raises \in BOOLEAN :
          lit_result' = query_result(run_query, pubmed_reply, scholar_reply,
                                     agg_raises)
    /\ log' = Append(log, "RETRIEVE")
    /\ pc' = "analyze"
    /\ UNCHANGED <<unitVars, storeVars, entry, api_key, run_query,
                   analysis_result, recommendation, doctor_review,
                   risk_profile, error>>

\* supervisor.py 37-43
Analyze ==
    /\ pc = "analyze"
    /\ \E outcome \in RunOutcomes :
          analysis_result' = analyze_survival(outcome)
    /\ log' = Append(log, "ANALYZE")
    /\ pc' = "score"
    /\ UNCHANGED <<unitVars, storeVars, entry, api_key, run_query, lit_result,
                   recommendation, doctor_review, risk_profile, error>>

\* supervisor.py 45-52
Score ==
    /\ pc = "score"
    /\ recommendation' =
           generate_recommendation(Evidence(lit_result, analysis_result))
    /\ log' = Append(log, "SCORE")
    /\ pc' = "review"
    /\ UNCHANGED <<unitVars, storeVars, entry, api_key, run_query, lit_result,
                   analysis_result, doctor_review, risk_profile, error>>

\* supervisor.py 54-59
Review ==
    /\ pc = "review"
    /\ doctor_review' =
           review_recommendation(
               ReviewInput(recommendation, Evidence(lit_result, analysis_result)))
    /\ log' = Append(log, "REVIEW")
    /\ pc' = "risk"
    /\ UNCHANGED <<unitVars, storeVars, entry, api_key, run_query, lit_result,
                   analysis_result, recommendation, risk_profile, error>>

\* supervisor.py 61-73: the risk profile, the report, the return
Return ==
    /\ pc = "risk"
    /\ risk_profile' = calculate_irae_risk
    /\ pc' = "returned"
    /\ UNCHANGED <<unitVars, storeVars, entry, api_key, run_query, lit_result,
                   analysis_result, recommendation, doctor_review, error, log>>

\* the dict process_query returns
Result ==
    [literature     |-> lit_result,
     analysis       |-> analysis_result,
     recommendation |-> recommendation,
     doctor_review  |-> doctor_review,
     risk_profile   |-> risk_profile]

\* the approval logged whatever the decision
ApprovalDueBuggy(review) == review.doctor_decision \in {"approve", "modify"}

\* main.py 43
ApprovalDue(review) == review.doctor_decision = "approve"

\* main.py 42-48 with approval_workflow.py 11-18: an exception of the write
\* leaves the try block for the handler of lines 66-68
LogApproval ==
    /\ pc = "returned" /\ entry = "cli"
    /\ ApprovalDue(Result.doctor_review)
    /\ \E storage_ok \in BOOLEAN :
          /\ SaveStep("save_doctor_review",
                      save_doctor_review_row(
                          ApprovalSessionId, "approved",
                          Result.doctor_review.doctor_name,
                          "Approved via Doctor-in-the-Loop system", clock),
                      review_record(
                          "approved", Result.doctor_review.doctor_name,
                          "Approved via Doctor-in-the-Loop system", clock),
                      storage_ok)
          /\ pc' = IF storage_ok THEN "approval_logged" ELSE "done"
          /\ error' = IF storage_ok THEN error ELSE "storage error"
          /\ log' = log \o <<"save_doctor_review">>
                         \o (IF storage_ok THEN <<>> ELSE <<"raised">>)
    /\ UNCHANGED <<unitVars, entry, api_key, run_query, lit_result,
                   analysis_result, recommendation, doctor_review,
                   risk_profile>>

\* the defaults of process_query used for the findings too
FindingsBuggy ==
    [total_papers       |-> Get(Result.literature, "total_found", 0),
     p_value            |-> Get(Result.analysis, "p_value", POne),
     grade              |-> Result.recommendation.grade,
     physician_decision |-> Result.doctor_review.doctor_decision,
     confidence         |-> Result.recommendation.confidence_score]

\* main.py 55-61
Findings ==
    [total_papers       |-> GetOrNone(Result.literature, "total_found"),
     p_value            |-> GetOrNone(Result.analysis, "p_value"),
     grade              |-> Result.recommendation.grade,
     physician_decision |-> Result.doctor_review.doctor_decision,
     confidence         |-> Result.recommendation.confidence_score]

\* main.py 50-64
SaveResearch ==
    /\ entry = "cli"
    /\ \/ pc = "approval_logged"
       \/ pc = "returned" /\ ~ApprovalDue(Result.doctor_review)
    /\ \E storage_ok \in BOOLEAN :
          /\ SaveStep("save_research",
                      save_research_row(WorkflowSessionId, run_query,
                                        "melanoma", Findings, clock),
                      Findings, storage_ok)
          /\ error' = IF storage_ok THEN error ELSE "storage error"
          /\ log' = log \o <<"save_research">>
                         \o (IF storage_ok THEN <<>> ELSE <<"raised">>)
    /\ pc' = "done"
    /\ UNCHANGED <<unitVars, entry, api_key, run_query, lit_result,
                   analysis_result, recommendation, doctor_review,
                   risk_profile>>

\* app.py 143-146: the result is kept in the page's session state and shown
ShowResult ==
    /\ pc = "returned" /\ entry = "dashboard"
    /\ pc' = "done"
    /\ UNCHANGED <<unitVars, storeVars, entry, api_key, run_query, lit_result,
                   analysis_result, recommendation, doctor_review,
                   risk_profile, error, log>>

Next ==
    \/ CheckCredential
    \/ Construct
    \/ Retrieve
    \/ Analyze
    \/ Score
    \/ Review
    \/ Return
    \/ LogApproval
    \/ SaveResearch
    \/ ShowResult

Spec == Init /\ [][Next]_vars

\* the run is one thread of blocking calls: a step that can be taken is taken
FairSpec == Spec /\ WF_vars(Next)

---------------------------------------------------------------------------
(***************************************************************************)
(* Properties                                                              *)
(***************************************************************************)
Called(f) == fn = f /\ ret # NoRet

\* C1: generate_recommendation returns the first matching tier in priority
\* order: p < 0.01 and papers >= 10 and median difference >= 12 gives
\* 0.94 / Strong / 1A; otherwise p < 0.05 and papers >= 8 gives
\* 0.87 / Moderate / 1B; otherwise 0.62 / Weak / 2C.  (An absent p-value
\* counts as 1.0, an absent paper count as 0, an absent or null median as 0.)
C1_TieringPolicy ==
    Called("generate_recommendation") =>
        LET p == IF "p_value" \in DOMAIN arg THEN arg.p_value ELSE 100000
            n == IF "total_papers" \in DOMAIN arg THEN arg.total_papers ELSE 0
            a == IF "median_pembrolizumab" \in DOMAIN arg
                    /\ arg.median_pembrolizumab # None
                 THEN arg.median_pembrolizumab ELSE 0
            b == IF "median_nivolumab" \in DOMAIN arg
                    /\ arg.median_nivolumab # None
                 THEN arg.median_nivolumab ELSE 0
            got == <<ret.confidence_score, ret.strength_of_recommendation,
                     ret.grade>>
        IN  IF p < 1000 /\ n >= 10 /\ a - b >= 12
            THEN got = <<9400, "Strong recommendation", "1A">>
            ELSE IF p < 5000 /\ n >= 8
            THEN got = <<8700, "Moderate recommendation", "1B">>
            ELSE got = <<6200, "Weak recommendation", "2C">>

\* the spec's first literal example: p = 0.005, 12 papers, difference 14
C1_Witness ==
    /\ Called("generate_recommendation")
    /\ DOMAIN arg = {"p_value", "total_papers", "median_pembrolizumab",
                     "median_nivolumab"}
    /\ arg.p_value = 500 /\ arg.total_papers = 12
    /\ arg.median_pembrolizumab = 20 /\ arg.median_nivolumab = 6
    /\ ret.grade = "1A" /\ ret.confidence_score = 9400

\* C2: review_recommendation decides in priority order: confidence < 0.70
\* gives Modify with the dose/monitoring comment whatever the p-value;
\* otherwise p > 0.05 gives Modify with the trial-enrollment comment;
\* otherwise Approve; so confidence = 0.70 with p = 0.05 is approved.
\* (For an input that carries a recommendation text; an absent confidence
\* counts as 0.87 and an absent p-value as 1.0.)
C2_ReviewPolicy ==
    (Called("review_recommendation") /\ "recommendation" \in DOMAIN arg) =>
        LET c == IF "confidence_score" \in DOMAIN arg
                 THEN arg.confidence_score ELSE 8700
            p == IF "p_value" \in DOMAIN arg THEN arg.p_value ELSE 100000
            got == <<ret.doctor_decision, ret.comment>>
        IN  IF c < 7000 THEN got = <<"modify", DoseComment>>
            ELSE IF p > 5000 THEN got = <<"modify", TrialComment>>
            ELSE got = <<"approve", ApproveComment>>

C2_Witness ==
    /\ Called("review_recommendation")
    /\ DOMAIN arg = {"recommendation", "confidence_score", "p_value"}
    /\ arg.confidence_score = 7000 /\ arg.p_value = 5000
    /\ ret.doctor_decision = "approve"

\* C3: in every review decision, final_recommendation is the input
\* recommendation text exactly when the decision is approve and the review
\* comment exactly when it is modify; the decision is one of the two.
C3_FinalRecommendation ==
    (Called("review_recommendation") /\ "doctor_decision" \in DOMAIN ret) =>
        /\ ret.doctor_decision \in {"approve", "modify"}
        /\ ret.doctor_decision = "approve"
               <=> /\ "recommendation" \in DOMAIN arg
                   /\ ret.final_recommendation = arg.recommendation
        /\ ret.doctor_decision = "modify"
               <=> ret.final_recommendation = ret.comment

C3_Witness ==
    /\ Called("review_recommendation")
    /\ "doctor_decision" \in DOMAIN ret
    /\ ret.doctor_decision = "modify"
    /\ "recommendation" \in DOMAIN arg
    /\ arg.recommendation = OtherText
    /\ ret.final_recommendation = TrialComment

Min(a, b) == IF a < b THEN a ELSE b

\* what each source handed to the agent in the unit call of query
UnitPubmed ==
    search_pubmed(arg.user_query, PubmedMaxResults, PubmedMinYear,
                  arg.pubmed_reply).papers

UnitScholar ==
    search_scholar(arg.user_query, ScholarMaxResults, arg.scholar_reply).papers

QuerySucceeded == Called("query") /\ ret.status = "success"

\* C4: a successful query result holds min(20, pubmed_count + scholar_count)
\* papers: first the PubMed papers in their original order (tagged PubMed),
\* then the Google Scholar papers; pubmed_count, scholar_count and
\* total_found are the counts before the cut to 20.
C4_AggregationOrder ==
    QuerySucceeded =>
        LET pub == UnitPubmed
            sch == UnitScholar
            np  == Len(pub)
            ns  == Len(sch)
        IN  /\ ret.pubmed_count = np
            /\ ret.scholar_count = ns
            /\ ret.total_found = np + ns
            /\ Len(ret.papers) = Min(20, np + ns)
            /\ \A i \in 1..Len(ret.papers) :
                  IF i <= np
                  THEN /\ ret.papers[i].source = "PubMed"
                       /\ ret.papers[i].title = pub[i].title
                  ELSE ret.papers[i] = sch[i - np]
            /\ np <= Len(ret.papers)

\* more than 20 papers found, both sources contributing: the list is cut
C4_Witness ==
    /\ QuerySucceeded
    /\ ret.total_found > 20 /\ Len(ret.papers) = 20
    /\ ret.pubmed_count > 0 /\ ret.scholar_count > 0

\* C5: when both sources contribute no paper (none returned, or the call
\* failed) the summary is the fixed no-results message and total_found is 0;
\* otherwise the summary lists exactly the sources with a nonzero count,
\* each with its count.
C5_Summary ==
    QuerySucceeded =>
        LET np == Len(UnitPubmed)
            ns == Len(UnitScholar)
            listed == {ret.analysis.parts[i] : i \in DOMAIN ret.analysis.parts}
        IN  IF np = 0 /\ ns = 0
            THEN /\ ret.analysis.text = NoResultsSummary
                 /\ ret.total_found = 0
            ELSE /\ ret.analysis.text # NoResultsSummary
                 /\ listed =
                        (IF np > 0 THEN {[count |-> np, from |-> "PubMed"]}
                         ELSE {})
                        \cup
                        (IF ns > 0
                         THEN {[count |-> ns, from |-> "Google Scholar"]}
                         ELSE {})
                 /\ Len(ret.analysis.parts) = Cardinality(listed)

\* both calls failed
C5_Witness ==
    /\ QuerySucceeded
    /\ arg.pubmed_reply.raises /\ arg.scholar_reply.raises
    /\ ret.analysis.text = NoResultsSummary /\ ret.total_found = 0

PubmedFailed == arg.pubmed_reply.raises

ScholarFailed ==
    arg.scholar_reply.raises \/ arg.scholar_reply.status_code # 200

\* C6: whichever of the PubMed and Scholar calls fail, a query whose
\* aggregation does not itself throw returns status success; a failed source
\* contributes no paper and a count of 0, and the papers of the other source
\* are all returned, in order.
C6_FailClosed ==
    (Called("query") /\ ~arg.agg_raises) =>
        /\ ret.status = "success"
        /\ PubmedFailed =>
              /\ ret.pubmed_count = 0
              /\ \A i \in DOMAIN ret.papers : ret.papers[i].source # "PubMed"
              /\ ret.papers = UnitScholar
        /\ ScholarFailed =>
              /\ ret.scholar_count = 0
              /\ \A i \in DOMAIN ret.papers :
                    /\ ret.papers[i].source = "PubMed"
                    /\ ret.papers[i].title = UnitPubmed[i].title
              /\ Len(ret.papers) = Len(UnitPubmed)

\* Scholar answers HTTP 429 with a body, PubMed succeeds with papers
C6_Witness ==
    /\ Called("query") /\ ~arg.agg_raises
    /\ ~arg.pubmed_reply.raises
    /\ ~arg.scholar_reply.raises /\ arg.scholar_reply.status_code = 429
    /\ Len(arg.scholar_reply.items) > 0
    /\ ret.status = "success" /\ ret.scholar_count = 0
    /\ Len(ret.papers) > 0

InLog(e) == \E i \in DOMAIN log : log[i] = e

Finished == pc \in {"returned", "approval_logged", "done"}

RetrieveFailed == lit_result # Unset /\ lit_result.status = "error"

\* C7: when Retrieve returns status error, process_query still runs Analyze,
\* Score and Review, the Scorer is given a paper count of 0, and the run
\* returns all five parts of the result.
C7_RetrieveFailureAbsorbed ==
    RetrieveFailed =>
        /\ pc \in {"analyze", "score", "review", "risk"}
              => ENABLED (Analyze \/ Score \/ Review \/ Return)
        /\ recommendation # Unset
              => recommendation.rationale.publications = 0
        /\ Finished =>
              /\ SubSeq(log, 1, 4) = <<"RETRIEVE", "ANALYZE", "SCORE", "REVIEW">>
              /\ \A part \in DOMAIN Result : Result[part] # Unset
              /\ Result.literature.status = "error"

C7_Witness ==
    /\ RetrieveFailed
    /\ pc = "returned"
    /\ analysis_result.status = "success"
    /\ recommendation.grade = "2C"
    /\ doctor_review.doctor_decision = "modify"

AnalyzeFailed == analysis_result # Unset /\ analysis_result.status = "error"

\* C8: when Analyze returns status error, process_query goes on to Score and
\* Review with the p-value taken as 1.0 and both medians absent, and the
\* error result (status error, a message, no figure path) is the 'analysis'
\* part of what the run returns.
C8_AnalyzeFailureAbsorbed ==
    AnalyzeFailed =>
        LET evidence == Evidence(lit_result, analysis_result)
        IN  /\ DOMAIN analysis_result = {"status", "message"}
            /\ pc \in {"score", "review", "risk"}
                  => ENABLED (Score \/ Review \/ Return)
            /\ evidence.p_value = 100000
            /\ evidence.median_pembrolizumab = None
            /\ evidence.median_nivolumab = None
            /\ recommendation # Unset =>
                  /\ recommendation.rationale.p = 100000
                  /\ recommendation.rationale.os_benefit = 0
                  /\ recommendation.grade = "2C"
            /\ Finished =>
                  /\ SubSeq(log, 1, 4) = <<"RETRIEVE", "ANALYZE", "SCORE", "REVIEW">>
                  /\ Result.analysis = [status |-> "error", message |-> "exception"]
                  /\ doctor_review # Unset

C8_Witness ==
    /\ AnalyzeFailed
    /\ pc = "returned"
    /\ lit_result.status = "success" /\ lit_result.total_found >= 10
    /\ recommendation.rationale.p = 100000
    /\ doctor_review.doctor_decision = "modify"

CliRunOver == entry = "cli" /\ pc = "done" /\ InLog("REVIEW")

\* C9 as stated, of the runs of main: at the end of every run that completes
\* Review the full-session write is attempted whatever the decision and
\* whatever the outcome of the approval-log write, and the approval-log write
\* is attempted if and only if the decision is approve.
C9_Original ==
    CliRunOver =>
        /\ InLog("save_research")
        /\ InLog("save_doctor_review")
              <=> doctor_review.doctor_decision = "approve"

ApprovalWriteRaised ==
    \E i \in DOMAIN log :
        /\ log[i] = "save_doctor_review"
        /\ i < Len(log) /\ log[i + 1] = "raised"

\* C9 amended: at the end of every CLI run that completes Review the
\* approval-log write has been attempted if and only if the decision is
\* approve, and the full-session write has been attempted, whatever the
\* decision, if and only if the approval-log write did not raise: a failed
\* approval-log write ends the run, its error caught by main.
C9_PersistAttempts ==
    CliRunOver =>
        /\ InLog("save_doctor_review")
              <=> doctor_review.doctor_decision = "approve"
        /\ InLog("save_research") <=> ~ApprovalWriteRaised
        /\ ApprovalWriteRaised => error = "storage error"

\* the approval-log write failed: the run ends without the session write
C9_Witness ==
    /\ CliRunOver
    /\ doctor_review.doctor_decision = "approve"
    /\ log = <<"RETRIEVE", "ANALYZE", "SCORE", "REVIEW", "save_doctor_review",
               "raised">>
    /\ last.op = "save_doctor_review" /\ ~last.ok
    /\ rows = last.before
    /\ error = "storage error"

CountRows(table, sid) ==
    Cardinality({i \in DOMAIN table : table[i].session_id = sid})

\* C10: the store is append-only: a save call that returns has added exactly
\* one row, after the rows that were there, carrying its session id; no call
\* changes or removes a stored row; and the rows carrying a session id are
\* as many as the calls that returned for it.
C10_AppendOnly ==
    /\ last.op # "none" =>
          /\ Len(rows) >= Len(last.before)
          /\ SubSeq(rows, 1, Len(last.before)) = last.before
          /\ last.ok =>
                /\ Len(rows) = Len(last.before) + 1
                /\ rows[Len(rows)].session_id = last.session_id
    /\ fn = "store" =>
          \A sid \in SessionIds : CountRows(rows, sid) = last.oks[sid]

\* a review row and then a session row under the same session id
C10_Witness ==
    /\ fn = "store"
    /\ Len(rows) = 2 /\ last.ok
    /\ rows[1].session_id = rows[2].session_id
    /\ rows[1].cancer_type = "clinical_decision"
    /\ rows[2].cancer_type = "melanoma"
    /\ last.oks[rows[1].session_id] = 2

SaveOps == {"save_research", "save_doctor_review"}

\* the call the caller has just made is the save recorded in last
JustSaved == fn = "store" /\ arg # NoRet /\ arg.op \in SaveOps

ReadBackOfSave ==
    /\ fn = "store" /\ arg # NoRet /\ arg.op = "get_session"
    /\ last.op = "save_research" /\ last.ok
    /\ last.session_id = arg.session_id

\* C12: after any sequence of saves, get_session(sessionId) right after a
\* save_research(sessionId, ..., findings) that returned gives findings equal
\* to the dict passed to that save, also when rows with the same session id
\* were stored before it.
C12_RoundTrip ==
    ReadBackOfSave => ret.found /\ ret.findings = last.findings

\* C13: once the credential check has passed, a CLI run never leaves main by
\* an exception, a persistence write that raises is caught by main and its
\* error shown, and the run reaches the final line of main whether or not
\* Retrieve, Analyze or a persistence write fails.
C13_CliTerminates ==
    /\ [](entry = "cli" => pc # "crashed")
    /\ [](entry = "cli" /\ InLog("raised") => pc = "done" /\ error = "storage error")
    /\ (entry = "cli" /\ pc = "construct") ~> (pc = "done")

\* the end of a CLI run in which Retrieve failed, Analyze failed and the
\* session write raised
C13_Witness ==
    /\ entry = "cli" /\ pc = "done"
    /\ RetrieveFailed /\ AnalyzeFailed
    /\ log = <<"RETRIEVE", "ANALYZE", "SCORE", "REVIEW", "save_research",
               "raised">>
    /\ error = "storage error"
    /\ rows = last.before

\* the value the variable holds before a key is configured
PlaceholderKey == "YOUR_API_KEY_HERE"

CredentialMissing == api_key \in {"", PlaceholderKey}

\* C14: with the API credential missing or still the placeholder, a run of the
\* CLI or of the dashboard is refused at the credential check: a
\* configuration error is shown, no stage runs, no result is produced and no
\* persistence write is attempted.
C14_RefusedWithoutCredential ==
    (CredentialMissing /\ pc # "start") =>
        /\ pc = "refused"
        /\ error = "configuration error"
        /\ log = <<>>
        /\ \A part \in DOMAIN Result : Result[part] = Unset
        /\ last = NoCall /\ pending = <<>> /\ rows \in InitialStores
        /\ ~ENABLED Next

\* the dashboard refused with the placeholder key, the stored rows untouched
C14_Witness ==
    /\ pc = "refused" /\ entry = "dashboard"
    /\ api_key = PlaceholderKey
    /\ error = "configuration error"
    /\ rows = EarlierRows /\ log = <<>>

StageOrder == <<"RETRIEVE", "ANALYZE", "SCORE", "REVIEW">>

Writes == {"save_doctor_review", "save_research", "raised"}

\* C16: every run, of the CLI or of the dashboard, goes through RETRIEVE,
\* ANALYZE, SCORE, REVIEW and PERSIST once each and in this order: a stage has
\* started only when the stages before it are over, the persistence writes
\* come only after REVIEW, and a run that is over has made them.
C16_FiveStages ==
    /\ Len(log) <= 4 => log = SubSeq(StageOrder, 1, Len(log))
    /\ Len(log) > 4 =>
          /\ SubSeq(log, 1, 4) = StageOrder
          /\ \A i \in 5..Len(log) : log[i] \in Writes
          /\ Cardinality({i \in DOMAIN log : log[i] = "save_research"}) <= 1
          /\ Cardinality({i \in DOMAIN log : log[i] = "save_doctor_review"}) <= 1
    /\ (pc = "done" /\ InLog("RETRIEVE")) => Len(log) > 4

\* a median as text: its number, or "Not reached" when it is null
Rendered(median) == IF median = None THEN "Not reached" ELSE ToString(median)

C18_PValueRuleNeverDecides ==
    doctor_review # Unset =>
        /\ doctor_review.doctor_decision = "approve"
              <=> recommendation.grade \in {"1A", "1B"}
        /\ doctor_review.doctor_decision = "modify"
              <=> recommendation.grade = "2C"
        /\ doctor_review.comment \in {ApproveComment, DoseComment}
        /\ doctor_review.final_recommendation \in {RecommendationText, DoseComment}

\* a run whose p-value is above 0.05: the review modifies, by the
\* confidence rule
C18_Witness ==
    /\ pc = "returned"
    /\ analysis_result.status = "success" /\ analysis_result.p_value > P005
    /\ lit_result.status = "success" /\ lit_result.total_found >= StrongPapers
    /\ recommendation.grade = "2C"
    /\ doctor_review.doctor_decision = "modify"
    /\ doctor_review.comment = DoseComment

\* C19: when the pembrolizumab median handed to generate_recommendation is
\* null (not reached), the median difference it computes is <= 0 and the
\* tier it returns is never Strong / 1A, whatever the p-value, the paper
\* count and the nivolumab median.
C19_NullMedianNeverStrong ==
    (/\ Called("generate_recommendation")
     /\ "median_pembrolizumab" \in DOMAIN arg
     /\ arg.median_pembrolizumab = None) =>
        /\ ret.rationale.os_benefit <= 0
        /\ ret.rationale.os_benefit = 0 - OrZero(GetOrNone(arg, "median_nivolumab"))
        /\ ret.grade \in {"1B", "2C"}
        /\ ret.confidence_score < StrongConfidence
        /\ ret.strength_of_recommendation # "Strong recommendation"

\* a null pembrolizumab median with p < 0.01 and at least 10 papers: the
\* difference is negative and the tier Moderate
C19_Witness ==
    /\ Called("generate_recommendation")
    /\ "median_pembrolizumab" \in DOMAIN arg /\ arg.median_pembrolizumab = None
    /\ "p_value" \in DOMAIN arg /\ arg.p_value < P001
    /\ "total_papers" \in DOMAIN arg /\ arg.total_papers >= StrongPapers
    /\ "median_nivolumab" \in DOMAIN arg /\ arg.median_nivolumab = 20
    /\ ret.rationale.os_benefit = -20
    /\ ret.grade = "1B"

\* C20: when Analyze fails, whatever Retrieve gave, the grade is 2C with
\* confidence 0.62 and the review modifies with the dose / monitoring comment
\* as final recommendation; a CLI run then attempts no approval-log write and
\* adds no approval row, and the session row it stores has findings with
\* p_value null and physician_decision "modify".
C20_AnalyzeFailureOutcome ==
    AnalyzeFailed =>
        /\ recommendation # Unset =>
              /\ recommendation.grade = "2C"
              /\ recommendation.confidence_score = WeakConfidence
        /\ doctor_review # Unset =>
              /\ doctor_review.doctor_decision = "modify"
              /\ doctor_review.comment = DoseComment
              /\ doctor_review.final_recommendation = DoseComment
        /\ ~InLog("save_doctor_review")
        /\ last.op \in {"none", "save_research"}
        /\ last.op = "none" => rows \in InitialStores
        /\ last.op = "save_research" =>
              /\ entry = "cli" /\ pc = "done"
              /\ last.before \in InitialStores
              /\ CountRows(rows, ApprovalSessionId)
                    = CountRows(last.before, ApprovalSessionId)
              /\ last.findings.p_value = None
              /\ last.findings.physician_decision = "modify"
              /\ last.ok =>
                    LET stored == get_session(SubSeq(rows, Len(rows), Len(rows)),
                                              WorkflowSessionId)
                    IN  /\ Len(rows) = Len(last.before) + 1
                        /\ rows[Len(rows)].findings.p_value = "null"
                        /\ stored.found
                        /\ stored.findings.p_value = None
                        /\ stored.findings.physician_decision = "modify"
                        /\ stored.findings.grade = "2C"
                        /\ stored.findings.confidence = WeakConfidence

\* a CLI run with 14 papers whose Analyze failed, its session row stored
\* after the rows of an earlier run
C20_Witness ==
    /\ entry = "cli" /\ pc = "done"
    /\ AnalyzeFailed
    /\ lit_result.status = "success" /\ lit_result.total_found = 14
    /\ recommendation.grade = "2C"
    /\ doctor_review.final_recommendation = DoseComment
    /\ log = <<"RETRIEVE", "ANALYZE", "SCORE", "REVIEW", "save_research">>
    /\ last.ok /\ last.before = EarlierRows
    /\ Len(rows) = 3
    /\ rows[3].session_id = WorkflowSessionId
    /\ rows[3].findings.p_value = "null"
    /\ rows[3].findings.total_papers = "14"

\* the paper count the Scorer is given for a literature result
TotalFound(lit) == Get(lit, "total_found", 0)

\* C21: two runs of process_query, whatever their queries and whatever the
\* search services answered, return the same risk profile; with the same
\* Analyze result they carry the same survival evidence; and with the same
\* paper count (total_found) and the same Analyze result they return the same
\* recommendation and the same doctor review, hence the same grade to store.
C21_QueryOnlyThroughPaperCount ==
    Called("process_query") =>
        /\ ret.first.risk_profile = ret.second.risk_profile
        /\ arg.first.outcome = arg.second.outcome
              => ret.first.analysis = ret.second.analysis
        /\ (/\ TotalFound(ret.first.literature) = TotalFound(ret.second.literature)
            /\ ret.first.analysis = ret.second.analysis) =>
              /\ ret.first.recommendation = ret.second.recommendation
              /\ ret.first.doctor_review = ret.second.doctor_review

\* two runs with different queries and different answers of the services
\* (10 PubMed papers against 8 PubMed and 2 Scholar papers), the same total of
\* 10 and the same survival outcome: both recommendations are 1A
C21_Witness ==
    /\ Called("process_query")
    /\ arg.first.user_query # arg.second.user_query
    /\ ret.first.literature.status = "success"
    /\ ret.second.literature.status = "success"
    /\ ret.first.literature.pubmed_count = 10
    /\ ret.second.literature.pubmed_count = 8
    /\ ret.first.literature.total_found = 10
    /\ ret.second.literature.total_found = 10
    /\ ret.first.literature # ret.second.literature
    /\ ret.first.analysis.status = "success"
    /\ ret.first.analysis = ret.second.analysis
    /\ ret.first.recommendation.grade = "1A"
    /\ ret.second.recommendation.grade = "1A"
    /\ ret.first.doctor_review.doctor_decision = "approve"

\* the writes of the run that returned, in order
WritesDone ==
    SelectSeq([i \in DOMAIN log |->
                  IF log[i] \in {"save_doctor_review", "save_research"}
                     /\ ~(i < Len(log) /\ log[i + 1] = "raised")
                  THEN log[i] ELSE "-"],
              LAMBDA e : e # "-")

\* the rows the run has added to the store it started from
RowsOfRun == SubSeq(rows, Len(rows) - Len(WritesDone) + 1, Len(rows))

IsApprovalRow(r) ==
    /\ r.session_id = ApprovalSessionId
    /\ r.cancer_type = "clinical_decision"
    /\ r.findings.decision = "\"approved\""

IsSessionRow(r) ==
    /\ r.session_id = WorkflowSessionId
    /\ r.cancer_type = "melanoma"

SessionWriteRaised ==
    \E i \in DOMAIN log :
        /\ log[i] = "save_research"
        /\ i < Len(log) /\ log[i + 1] = "raised"

\* C22: in a CLI run whose decision is approve the approval-log row is
\* committed before the session write is attempted, and the two writes are
\* separate commits: when the session write is attempted the run's approval
\* row is stored already, a stored session row of the run comes right after
\* the run's approval row, and when the session write raises the approval
\* row stays stored with no session row of the run.
C22_ApprovalCommittedFirst ==
    (/\ entry = "cli" /\ doctor_review # Unset
     /\ doctor_review.doctor_decision = "approve") =>
        /\ Len(rows) >= Len(WritesDone)
        /\ pc = "approval_logged" =>
              /\ Len(RowsOfRun) = 1 /\ IsApprovalRow(RowsOfRun[1])
              /\ pending = <<>>
        /\ InLog("save_research") =>
              /\ log[5] = "save_doctor_review" /\ log[6] = "save_research"
              /\ Len(RowsOfRun) >= 1 /\ IsApprovalRow(RowsOfRun[1])
              /\ RowsOfRun[1].timestamp < clock - 1
        /\ (\E i \in DOMAIN RowsOfRun : IsSessionRow(RowsOfRun[i])) =>
              /\ Len(RowsOfRun) = 2
              /\ IsApprovalRow(RowsOfRun[1]) /\ IsSessionRow(RowsOfRun[2])
              /\ RowsOfRun[1].id < RowsOfRun[2].id
              /\ RowsOfRun[1].timestamp < RowsOfRun[2].timestamp
        /\ SessionWriteRaised =>
              /\ pc = "done" /\ error = "storage error"
              /\ Len(RowsOfRun) = 1 /\ IsApprovalRow(RowsOfRun[1])
              /\ rows = last.before
              /\ pending = <<>>

\* an approved CLI run whose session write raised: its approval row is
\* stored after the two rows of an earlier run, with no session row
C22_Witness ==
    /\ entry = "cli" /\ pc = "done"
    /\ doctor_review.doctor_decision = "approve"
    /\ log = <<"RETRIEVE", "ANALYZE", "SCORE", "REVIEW", "save_doctor_review",
               "save_research", "raised">>
    /\ Len(rows) = 3
    /\ SubSeq(rows, 1, 2) = EarlierRows
    /\ IsApprovalRow(rows[3]) /\ rows[3].id = 3
    /\ last.op = "save_research" /\ ~last.ok
    /\ error = "storage error"

=============================================================================
